---------------------------- MODULE Spec2Model ----------------------------
(***************************************************************************)
(* The state machine of panoptes/observatory.py (class Observatory): the   *)
(* control loop start_observing, the poll query_conditions, the liveness   *)
(* write heartbeat, the day/night oracle is_dark and the ten               *)
(* while_<state> handlers.                                                 *)
(*                                                                         *)
(* Reading of the source.  The bare names states, observatory, scheduler   *)
(* and target (lines 155, 166-177, 516, 719, 787) are bound nowhere in the *)
(* module; they are read as the members of the controller of the same      *)
(* name (self.states, self, self.scheduler, self.scheduler.target), and    *)
(* self.debug.info as a log call.  time_to_start() and the sun's altitude  *)
(* are inputs of a handler call.  Everything else is modelled as written:  *)
(* in particular is_dark assigns its result to self.is_dark (line 197), so *)
(* the attribute is a bool after the first call and a later self.is_dark() *)
(* raises TypeError.                                                       *)
(*                                                                         *)
(* A handler is an operator from the controller's fields, the polled       *)
(* attributes and the inputs of the call to an execution record: the       *)
(* fields it leaves, the commands it issued with their outcomes, and the   *)
(* exception that left it, if any.                                         *)
(***************************************************************************)
EXTENDS Integers, Sequences, FiniteSets, TLC

VARIABLES
    current_state,  \* self.current_state
    is_dark_attr,   \* what self.is_dark is bound to: "method" or "bool"
    snap,           \* the polled attributes of camera, mount and weather
    target,         \* self.scheduler.target
    pc,             \* position of the caller (control loop or direct call)
    next_state,     \* the local next_state of start_observing
    polls,          \* polls made in the current loop iteration, per poll
    call,           \* record of the handler call of this iteration
    heartbeats      \* heartbeat writes made in the current loop iteration

vars == <<current_state, is_dark_attr, snap, target, pc, next_state, polls, call,
          heartbeats>>

-----------------------------------------------------------------------------
(* Bounds and program constants *)

\* at most this many command kinds fail in one handler call
MaxFail == 1
\* minimum number of images a target asks for
MinImages == 2

\* default dark_horizon of is_dark
DarkHorizon == -12
\* wait_time of while_shutdown and while_sleeping
LongWait == 60
\* wait_time of while_getting_ready
ShortWait == 10

-----------------------------------------------------------------------------
(* The state names: the keys of self.states, and the stop value *)

States ==
    {"shutdown", "sleeping", "getting ready", "scheduling", "slewing",
     "taking test image", "analyzing", "imaging", "parking", "parked"}

StopObserving == "stop_observing"

(* Sun altitudes (degrees) a call may see: just below and at the horizon *)
Altitudes == {DarkHorizon - 1, DarkHorizon}

(* The attributes query_conditions populates *)
Snapshots ==
    [camera  : [connected : BOOLEAN, cooling : BOOLEAN,
                cooled : BOOLEAN, exposing : BOOLEAN],
     mount   : [connected : BOOLEAN, tracking : BOOLEAN,
                slewing : BOOLEAN, parked : BOOLEAN],
     weather : [safe : BOOLEAN]]

Unpolled ==
    [camera  |-> [connected |-> FALSE, cooling |-> FALSE,
                  cooled |-> FALSE, exposing |-> FALSE],
     mount   |-> [connected |-> FALSE, tracking |-> FALSE,
                  slewing |-> FALSE, parked |-> FALSE],
     weather |-> [safe |-> FALSE]]

(* scheduler.target: None (chosen = FALSE) or a target record *)
NoTarget ==
    [chosen |-> FALSE, test_image_taken |-> FALSE, images_taken |-> 0,
     min_images |-> MinImages, completed |-> FALSE, astrometry_solved |-> FALSE,
     analysis_attempted |-> FALSE, analysis_in_progress |-> FALSE]

Targets ==
    [chosen : {TRUE}, test_image_taken : BOOLEAN,
     images_taken : {MinImages - 1, MinImages},
     min_images : {MinImages}, completed : {FALSE},
     astrometry_solved : {TRUE},
     analysis_attempted : {TRUE}, analysis_in_progress : {FALSE}]

(* the target a successful get_target() may deliver *)
NewTarget ==
    [chosen |-> TRUE, test_image_taken |-> FALSE, images_taken |-> 0,
     min_images |-> MinImages, completed |-> FALSE, astrometry_solved |-> FALSE,
     analysis_attempted |-> FALSE, analysis_in_progress |-> FALSE]

(* The commands a handler sends to a subsystem *)
Commands ==
    {"camera.connect", "camera.disconnect", "camera.set_cooling",
     "camera.cancel_exposure", "camera.take_image",
     "mount.connect", "mount.disconnect", "mount.set_tracking_rate",
     "mount.cancel_slew", "mount.slew_to", "mount.park",
     "scheduler.get_target"}

(* The commands each handler can send *)
CommandsOf(st) ==
    CASE st = "shutdown" ->
            {"mount.disconnect", "camera.disconnect", "camera.connect",
             "mount.connect", "mount.park"}
      [] st = "sleeping" ->
            {"camera.connect", "camera.set_cooling", "camera.cancel_exposure",
             "mount.connect", "mount.set_tracking_rate", "mount.cancel_slew",
             "mount.park"}
      [] st = "getting ready" ->
            {"camera.connect", "camera.set_cooling", "camera.cancel_exposure",
             "scheduler.get_target", "mount.connect",
             "mount.set_tracking_rate", "mount.cancel_slew", "mount.park"}
      [] st = "scheduling" ->
            {"mount.park", "camera.connect", "camera.set_cooling",
             "camera.cancel_exposure", "mount.connect", "mount.cancel_slew",
             "mount.slew_to"}
      [] st = "slewing" -> {"camera.take_image", "mount.park"}
      [] OTHER -> {}

(* The sets of command kinds that fail in one call *)
FailSets(S) == {f \in SUBSET S : Cardinality(f) <= MaxFail}

-----------------------------------------------------------------------------
(* Execution records and the statements of a handler.  A statement leaves  *)
(* the record alone once an exception is propagating (exc # "").           *)

(* entry of a handler: self.current_state = "<state>" *)
Enter(st, tgt, attr) ==
    [state |-> st, cs |-> st, sets |-> <<st>>, cmds |-> <<>>, crit |-> 0,
     wait |-> 0, target |-> tgt, attr |-> attr, dark |-> FALSE,
     dark_calls |-> 0, exc |-> ""]

(* self.current_state = st *)
Assign(e, st) ==
    IF e.exc # "" THEN e
    ELSE [e EXCEPT !.cs = st, !.sets = Append(@, st)]

(* self.logger.critical(...) *)
Critical(e) ==
    IF e.exc # "" THEN e ELSE [e EXCEPT !.crit = @ + 1]

(* time.sleep(wait_time) *)
Sleep(e, seconds) ==
    IF e.exc # "" THEN e ELSE [e EXCEPT !.wait = @ + seconds]

(* a command sent outside any try: a failure propagates *)
Invoke(e, cmd, arg, fail) ==
    IF e.exc # "" THEN e
    ELSE [e EXCEPT !.cmds = Append(@, [cmd |-> cmd, arg |-> arg,
                                        ok |-> cmd \notin fail]),
                   !.exc = IF cmd \in fail THEN "CommandFailure" ELSE ""]

(* the day/night oracle: sun.alt < dark_horizon *)
is_dark_value(alt, dark_horizon) == alt < dark_horizon

(* self.is_dark(): the call, and the assignment self.is_dark = <result> *)
is_dark(e, alt) ==
    IF e.exc # "" THEN e
    ELSE IF e.attr # "method"
         THEN [e EXCEPT !.dark_calls = @ + 1, !.exc = "TypeError"]
         ELSE [e EXCEPT !.dark_calls = @ + 1, !.attr = "bool",
                        !.dark = is_dark_value(alt, DarkHorizon)]

(* the except clause writing a name that is no key of self.states *)
TryOrPark_misspelt(e, cmd, arg, fail) ==
    LET r == Invoke(e, cmd, arg, fail)
    IN  IF e.exc = "" /\ r.exc # ""
        THEN Invoke(Critical(Assign([r EXCEPT !.exc = ""], "park")),
                    "mount.park", "", fail)
        ELSE r

(* try: <cmd>  except: current_state = "parking"; critical; mount.park()   *)
(* (the park of the except clause is outside any try)                      *)
TryOrPark(e, cmd, arg, fail) ==
    LET r == Invoke(e, cmd, arg, fail)
    IN  IF e.exc = "" /\ r.exc # ""
        THEN Invoke(Critical(Assign([r EXCEPT !.exc = ""], "parking")),
                    "mount.park", "", fail)
        ELSE r

(* the failed park leaving the state at parking *)
ParkOrGetReady_stay(e, fail) ==
    LET p == Assign(e, "parking")
        r == Invoke(p, "mount.park", "", fail)
    IN  IF p.exc = "" /\ r.exc # ""
        THEN Critical([r EXCEPT !.exc = ""])
        ELSE r

(* current_state = "parking"; try: mount.park()                            *)
(* except: current_state = "getting ready"; critical                       *)
ParkOrGetReady(e, fail) ==
    LET p == Assign(e, "parking")
        r == Invoke(p, "mount.park", "", fail)
    IN  IF p.exc = "" /\ r.exc # ""
        THEN Critical(Assign([r EXCEPT !.exc = ""], "getting ready"))
        ELSE r

-----------------------------------------------------------------------------
(* The handlers.  s is the polled snapshot, inp the inputs of the call:    *)
(* fail (the command kinds that fail), alt (the sun's altitude), tts1 and  *)
(* tts2 (the results of the two time_to_start() calls), deliver (whether a *)
(* successful get_target() fills scheduler.target during the call).        *)

(* the connects made whether or not the start time is reached *)
ConnectAtStart_ungated(e, inp) ==
    TryOrPark(TryOrPark(Assign(e, "sleeping"), "camera.connect", "", inp.fail),
              "mount.connect", "", inp.fail)

(* if self.time_to_start(): "sleeping", connect the camera, connect the    *)
(* mount, each in its own try                                              *)
ConnectAtStart(e, inp) ==
    IF inp.tts2
    THEN TryOrPark(TryOrPark(Assign(e, "sleeping"),
                             "camera.connect", "", inp.fail),
                   "mount.connect", "", inp.fail)
    ELSE e

while_shutdown(e0, s, inp) ==
    IF ~inp.tts1 /\ ~s.camera.connected /\ ~s.mount.connected
    THEN Sleep(e0, LongWait)
    ELSE LET a == IF s.mount.connected
                  THEN Invoke(e0, "mount.disconnect", "", inp.fail) ELSE e0
             b == IF s.camera.connected
                  THEN Invoke(a, "camera.disconnect", "", inp.fail) ELSE a
         IN  ConnectAtStart(b, inp)

(* the forward transition taken without looking at darkness or weather *)
StartCooling_ungated(e, s, inp) ==
    TryOrPark(Assign(e, "getting ready"), "camera.set_cooling", "True", inp.fail)

(* if self.is_dark() and self.weather.safe: "getting ready", start cooling *)
StartCooling(e, s, inp) ==
    LET i == is_dark(e, inp.alt)
    IN  IF i.exc = "" /\ i.dark /\ s.weather.safe
        THEN TryOrPark(Assign(i, "getting ready"),
                       "camera.set_cooling", "True", inp.fail)
        ELSE i

while_sleeping(e0, s, inp) ==
    LET e1 == is_dark(e0, inp.alt)
    IN  IF e1.exc # "" THEN e1
        ELSE IF ~e1.dark /\ s.camera.connected /\ ~s.camera.cooling
                /\ ~s.camera.exposing /\ s.mount.connected
                /\ ~s.mount.tracking /\ ~s.mount.slewing /\ s.mount.parked
        THEN Sleep(e1, LongWait)
        ELSE LET a == IF ~s.camera.connected
                      THEN TryOrPark(e1, "camera.connect", "", inp.fail)
                      ELSE e1
                 b == IF s.camera.cooling
                      THEN TryOrPark(a, "camera.set_cooling", "False", inp.fail)
                      ELSE a
                 c == IF s.camera.exposing
                      THEN TryOrPark(b, "camera.cancel_exposure", "", inp.fail)
                      ELSE b
                 d == IF ~s.mount.connected
                      THEN TryOrPark(c, "mount.connect", "", inp.fail)
                      ELSE c
                 f == IF s.mount.tracking
                      THEN TryOrPark(d, "mount.set_tracking_rate", "0,0",
                                     inp.fail)
                      ELSE d
                 g == IF s.mount.slewing
                      THEN TryOrPark(f, "mount.cancel_slew", "", inp.fail)
                      ELSE f
                 h == IF ~s.mount.parked
                      THEN Invoke(Critical(Assign(g, "parking")),
                                  "mount.park", "", inp.fail)
                      ELSE g
             IN  StartCooling(h, s, inp)

(* the except clause of get_target() leaving the state at scheduling *)
RequestTarget_noretry(e, inp) ==
    LET q == Assign(e, "scheduling")
        r == Invoke(q, "scheduler.get_target", "", inp.fail)
    IN  IF q.exc = "" /\ r.exc # ""
        THEN [r EXCEPT !.exc = ""]
        ELSE IF r.exc = "" /\ inp.deliver
             THEN [r EXCEPT !.target = NewTarget]
             ELSE r

(* try: scheduler.get_target()  except: current_state = "getting ready" *)
RequestTarget(e, inp) ==
    LET q == Assign(e, "scheduling")
        r == Invoke(q, "scheduler.get_target", "", inp.fail)
    IN  IF q.exc = "" /\ r.exc # ""
        THEN Assign([r EXCEPT !.exc = ""], "getting ready")
        ELSE IF r.exc = "" /\ inp.deliver
             THEN [r EXCEPT !.target = NewTarget]
             ELSE r

while_getting_ready(e0, s, inp) ==
    LET e1 == is_dark(e0, inp.alt)
    IN  IF e1.exc # "" THEN e1
        ELSE IF e1.dark /\ s.camera.connected /\ s.camera.cooling
                /\ ~s.camera.cooled /\ ~s.camera.exposing
                /\ s.mount.connected /\ ~s.mount.tracking /\ ~s.mount.slewing
                /\ ~e1.target.chosen /\ s.weather.safe
        THEN Sleep(e1, ShortWait)
        ELSE LET a == IF ~s.camera.connected
                      THEN TryOrPark(e1, "camera.connect", "", inp.fail)
                      ELSE e1
                 b == IF ~s.camera.cooling
                      THEN TryOrPark(a, "camera.set_cooling", "True", inp.fail)
                      ELSE a
                 c == IF s.camera.exposing
                      THEN TryOrPark(b, "camera.cancel_exposure", "", inp.fail)
                      ELSE b
                 d == IF s.camera.cooled /\ s.weather.safe
                      THEN RequestTarget(c, inp) ELSE c
                 f == IF ~s.mount.connected
                      THEN TryOrPark(d, "mount.connect", "", inp.fail)
                      ELSE d
                 g == IF s.mount.tracking
                      THEN TryOrPark(f, "mount.set_tracking_rate", "0,0",
                                     inp.fail)
                      ELSE f
                 h == IF s.mount.slewing
                      THEN TryOrPark(g, "mount.cancel_slew", "", inp.fail)
                      ELSE g
                 i == IF h.exc = "" /\ h.target.chosen
                      THEN [h EXCEPT !.target = NoTarget] ELSE h
             IN  IF ~s.weather.safe THEN ParkOrGetReady(i, inp.fail) ELSE i

(* try: mount.slew_to(target)  except: critical; "getting ready" *)
SlewToTarget(e, inp) ==
    LET q == Assign(e, "slewing")
        r == Invoke(q, "mount.slew_to", "target", inp.fail)
    IN  IF q.exc = "" /\ r.exc # ""
        THEN Assign(Critical([r EXCEPT !.exc = ""]), "getting ready")
        ELSE r

while_scheduling(e0, s, inp) ==
    LET e1 == is_dark(e0, inp.alt)
    IN  IF e1.exc # "" THEN e1
        ELSE IF e1.dark /\ s.camera.connected /\ s.camera.cooling
                /\ s.camera.cooled /\ ~s.camera.exposing
                /\ s.mount.connected /\ ~s.mount.slewing /\ s.weather.safe
        THEN e1
        ELSE LET n == is_dark(e1, inp.alt)
                 a == IF n.exc = "" /\ ~n.dark
                      THEN ParkOrGetReady(n, inp.fail) ELSE n
                 b == IF ~s.camera.connected
                      THEN TryOrPark(Assign(a, "getting ready"),
                                     "camera.connect", "", inp.fail)
                      ELSE a
                 c == IF ~s.camera.cooling
                      THEN TryOrPark(Assign(b, "getting ready"),
                                     "camera.set_cooling", "True", inp.fail)
                      ELSE b
                 d == IF ~s.camera.cooled
                      THEN Assign(c, "getting ready") ELSE c
                 f == IF s.camera.exposing
                      THEN TryOrPark(Assign(d, "getting ready"),
                                     "camera.cancel_exposure", "", inp.fail)
                      ELSE d
                 g == IF ~s.mount.connected
                      THEN TryOrPark(Assign(f, "getting ready"),
                                     "mount.connect", "", inp.fail)
                      ELSE f
                 h == IF s.mount.slewing
                      THEN TryOrPark(Assign(g, "getting ready"),
                                     "mount.cancel_slew", "", inp.fail)
                      ELSE g
                 i == IF h.target.chosen /\ s.weather.safe
                      THEN SlewToTarget(h, inp) ELSE h
             IN  IF ~s.weather.safe THEN ParkOrGetReady(i, inp.fail) ELSE i

(* the branch on target.test_image_taken taken the wrong way round *)
TakeImage_inverted(e, inp) ==
    IF e.exc # "" THEN e
    ELSE IF ~e.target.chosen THEN [e EXCEPT !.exc = "AttributeError"]
    ELSE IF e.target.test_image_taken
         THEN Invoke(Assign(e, "taking test image"),
                     "camera.take_image", "True", inp.fail)
         ELSE Invoke(Assign(e, "imaging"),
                     "camera.take_image", "False", inp.fail)

(* the branch on target.test_image_taken, the exposure outside any try *)
TakeImage(e, inp) ==
    IF e.exc # "" THEN e
    ELSE IF ~e.target.chosen THEN [e EXCEPT !.exc = "AttributeError"]
    ELSE IF ~e.target.test_image_taken
         THEN Invoke(Assign(e, "taking test image"),
                     "camera.take_image", "True", inp.fail)
         ELSE Invoke(Assign(e, "imaging"),
                     "camera.take_image", "False", inp.fail)

(* the exposure started without looking at the weather *)
while_slewing_unguarded(e0, s, inp) ==
    IF s.mount.connected /\ s.mount.slewing
    THEN e0
    ELSE LET a == IF ~s.mount.slewing THEN TakeImage(e0, inp) ELSE e0
         IN  IF ~s.weather.safe THEN ParkOrGetReady(a, inp.fail) ELSE a

while_slewing(e0, s, inp) ==
    IF s.mount.connected /\ s.mount.slewing
    THEN e0
    ELSE LET a == IF ~s.mount.slewing /\ s.weather.safe
                  THEN TakeImage(e0, inp) ELSE e0
         IN  IF ~s.weather.safe THEN ParkOrGetReady(a, inp.fail) ELSE a

while_taking_test_image(e0, s, inp) == e0

while_analyzing(e0, s, inp) == e0

while_imaging(e0, s, inp) == e0

(* a parking handler that cancels an exposure it finds in progress *)
while_parking_cancelling(e0, s, inp) ==
    IF s.camera.exposing
    THEN TryOrPark(e0, "camera.cancel_exposure", "", inp.fail)
    ELSE e0

while_parking(e0, s, inp) == e0

while_parked(e0, s, inp) == e0

(* self.states: the handler registered for each key, called on the         *)
(* controller's fields                                                     *)
states(key, tgt, attr, s, inp) ==
    CASE key = "shutdown" -> while_shutdown(Enter("shutdown", tgt, attr), s, inp)
      [] key = "sleeping" -> while_sleeping(Enter("sleeping", tgt, attr), s, inp)
      [] key = "getting ready" ->
            while_getting_ready(Enter("getting ready", tgt, attr), s, inp)
      [] key = "scheduling" ->
            while_scheduling(Enter("scheduling", tgt, attr), s, inp)
      [] key = "slewing" -> while_slewing(Enter("slewing", tgt, attr), s, inp)
      [] key = "taking test image" ->
            while_taking_test_image(Enter("taking test image", tgt, attr), s, inp)
      [] key = "analyzing" ->
            while_analyzing(Enter("analyzing", tgt, attr), s, inp)
      [] key = "imaging" -> while_imaging(Enter("imaging", tgt, attr), s, inp)
      [] key = "parking" -> while_parking(Enter("parking", tgt, attr), s, inp)
      [] key = "parked" -> while_parked(Enter("parked", tgt, attr), s, inp)

-----------------------------------------------------------------------------
(* Calls and their records *)

(* the status polls of query_conditions *)
Polls ==
    {"weather.check_conditions", "camera.is_connected", "camera.is_cooling",
     "camera.is_cooled", "camera.is_exposing", "mount.is_connected",
     "mount.is_tracking", "mount.is_slewing", "mount.is_parked"}

NoPolls == [p \in Polls |-> 0]

NoCall ==
    [state |-> "none", ret |-> "none", exc |-> "", sets |-> <<>>,
     cmds |-> <<>>, crit |-> 0, wait |-> 0, target0 |-> NoTarget,
     alt |-> DarkHorizon, tts1 |-> FALSE, tts2 |-> FALSE, dark_calls |-> 0,
     dark |-> FALSE, fail |-> {}, delivered |-> FALSE]

(* the inputs a call of the handler of st can see *)
InputsOf(st) ==
    {inp \in [fail : FailSets(CommandsOf(st)), alt : Altitudes,
              tts1 : IF st = "shutdown" THEN BOOLEAN ELSE {FALSE},
              tts2 : IF st = "shutdown" THEN BOOLEAN ELSE {FALSE},
              deliver : IF st = "getting ready" THEN BOOLEAN ELSE {FALSE}] :
        inp.tts1 => inp.tts2}

(* what a handler call leaves behind: the controller's fields as the       *)
(* handler set them, and the record of the call                            *)
Leave(e, inp) ==
    /\ current_state' = e.cs
    /\ target' = e.target
    /\ is_dark_attr' = e.attr
    /\ call' = [state |-> e.state,
                ret |-> IF e.exc = "" THEN e.cs ELSE "raised",
                exc |-> e.exc, sets |-> e.sets, cmds |-> e.cmds,
                crit |-> e.crit, wait |-> e.wait, target0 |-> target,
                alt |-> inp.alt, tts1 |-> inp.tts1, tts2 |-> inp.tts2,
                dark_calls |-> e.dark_calls, dark |-> e.dark,
                fail |-> inp.fail,
                delivered |->
                    /\ inp.deliver
                    /\ \E i \in DOMAIN e.cmds :
                          /\ e.cmds[i].cmd = "scheduler.get_target"
                          /\ e.cmds[i].ok]

-----------------------------------------------------------------------------
(* The control loop: start_observing *)

Init ==
    /\ current_state = "shutdown"
    /\ is_dark_attr = "method"
    /\ snap = Unpolled
    /\ target = NoTarget
    /\ pc = "check"
    /\ next_state = "none"
    /\ polls = NoPolls
    /\ call = NoCall
    /\ heartbeats = 0

(* while True: if self.current_state == 'stop_observing': break *)
LoopCheck ==
    /\ pc = "check"
    /\ pc' = IF current_state = StopObserving THEN "stopped" ELSE "query"
    /\ polls' = NoPolls
    /\ call' = NoCall
    /\ heartbeats' = 0
    /\ UNCHANGED <<current_state, is_dark_attr, snap, target, next_state>>

(* the polls query_conditions makes, each once *)
query_conditions(n) == [p \in Polls |-> n[p] + 1]

(* self.query_conditions(): every status attribute is refreshed *)
QueryConditions ==
    /\ pc = "query"
    /\ snap' \in Snapshots
    /\ polls' = query_conditions(polls)
    /\ pc' = "dispatch"
    /\ UNCHANGED <<current_state, is_dark_attr, target, next_state, call,
                   heartbeats>>

(* next_state = states[self.current_state](): a key that is not in the     *)
(* table, or an exception leaving the handler, ends the loop               *)
Dispatch ==
    /\ pc = "dispatch"
    /\ IF current_state \notin States
       THEN /\ pc' = "crashed"
            /\ UNCHANGED <<current_state, is_dark_attr, target, next_state, call>>
       ELSE \E inp \in InputsOf(current_state) :
              \E e \in {states(current_state, target, is_dark_attr, snap, inp)} :
                  /\ Leave(e, inp)
                  /\ pc' = IF e.exc = "" THEN "commit" ELSE "crashed"
                  /\ next_state' = IF e.exc = "" THEN e.cs ELSE next_state
    /\ UNCHANGED <<snap, polls, heartbeats>>

(* the return value dropped: current_state keeps what it holds *)
committed_dropped(ns, cur) == cur

(* the value self.current_state gets from the handler's return value *)
committed(ns, cur) == ns

(* self.current_state = next_state *)
Commit ==
    /\ pc = "commit"
    /\ current_state' = committed(next_state, current_state)
    /\ pc' = "check"
    /\ UNCHANGED <<is_dark_attr, snap, target, next_state, polls, call,
                   heartbeats>>

(* the stop signal: current_state is set to 'stop_observing' from outside  *)
(* the loop, at any point of an iteration                                  *)
SetStop ==
    /\ pc \in {"check", "query", "dispatch", "commit"}
    /\ current_state # StopObserving
    /\ current_state' = StopObserving
    /\ UNCHANGED <<is_dark_attr, snap, target, pc, next_state, polls, call,
                   heartbeats>>

Next == LoopCheck \/ QueryConditions \/ Dispatch \/ Commit \/ SetStop

Spec == Init /\ [][Next]_vars

-----------------------------------------------------------------------------
(* One handler, or heartbeat, called directly on a controller in any       *)
(* state, with any polled attributes, any target, and is_dark called       *)
(* before or not                                                           *)

HandlerInit ==
    /\ current_state \in States
    /\ is_dark_attr \in {"method", "bool"}
    /\ snap \in Snapshots
    /\ target \in {NoTarget} \cup Targets
    /\ pc = "call"
    /\ next_state = "none"
    /\ polls = NoPolls
    /\ call = NoCall
    /\ heartbeats = 0

Returns(e, inp) ==
    /\ Leave(e, inp)
    /\ pc' = IF e.exc = "" THEN "returned" ELSE "raised"
    /\ UNCHANGED <<snap, next_state, polls, heartbeats>>

CallShutdown ==
    /\ pc = "call" /\ current_state = "shutdown"
    /\ \E inp \in InputsOf("shutdown") :
         \E e \in {while_shutdown(Enter("shutdown", target, is_dark_attr),
                    snap, inp)} : Returns(e, inp)

CallSleeping ==
    /\ pc = "call" /\ current_state = "sleeping"
    /\ \E inp \in InputsOf("sleeping") :
         \E e \in {while_sleeping(Enter("sleeping", target, is_dark_attr),
                    snap, inp)} : Returns(e, inp)

CallGettingReady ==
    /\ pc = "call" /\ current_state = "getting ready"
    /\ \E inp \in InputsOf("getting ready") :
         \E e \in {while_getting_ready(Enter("getting ready", target, is_dark_attr),
                    snap, inp)} : Returns(e, inp)

CallScheduling ==
    /\ pc = "call" /\ current_state = "scheduling"
    /\ \E inp \in InputsOf("scheduling") :
         \E e \in {while_scheduling(Enter("scheduling", target, is_dark_attr),
                    snap, inp)} : Returns(e, inp)

CallSlewing ==
    /\ pc = "call" /\ current_state = "slewing"
    /\ \E inp \in InputsOf("slewing") :
         \E e \in {while_slewing(Enter("slewing", target, is_dark_attr),
                    snap, inp)} : Returns(e, inp)

CallTakingTestImage ==
    /\ pc = "call" /\ current_state = "taking test image"
    /\ \E inp \in InputsOf("taking test image") :
         \E e \in {while_taking_test_image(Enter("taking test image", target, is_dark_attr),
                    snap, inp)} : Returns(e, inp)

CallAnalyzing ==
    /\ pc = "call" /\ current_state = "analyzing"
    /\ \E inp \in InputsOf("analyzing") :
         \E e \in {while_analyzing(Enter("analyzing", target, is_dark_attr),
                    snap, inp)} : Returns(e, inp)

CallImaging ==
    /\ pc = "call" /\ current_state = "imaging"
    /\ \E inp \in InputsOf("imaging") :
         \E e \in {while_imaging(Enter("imaging", target, is_dark_attr),
                    snap, inp)} : Returns(e, inp)

CallParking ==
    /\ pc = "call" /\ current_state = "parking"
    /\ \E inp \in InputsOf("parking") :
         \E e \in {while_parking(Enter("parking", target, is_dark_attr),
                    snap, inp)} : Returns(e, inp)

CallParked ==
    /\ pc = "call" /\ current_state = "parked"
    /\ \E inp \in InputsOf("parked") :
         \E e \in {while_parked(Enter("parked", target, is_dark_attr),
                    snap, inp)} : Returns(e, inp)

(* heartbeat() called on the controller: the marker file is opened and the *)
(* timestamp written, outside any try                                      *)
heartbeat(n, ok) ==
    [writes |-> IF ok THEN n + 1 ELSE n,
     exc |-> IF ok THEN "" ELSE "IOError"]

CallHeartbeat ==
    /\ pc = "call"
    /\ \E ok \in BOOLEAN :
         \E h \in {heartbeat(heartbeats, ok)} :
             /\ heartbeats' = h.writes
             /\ pc' = IF h.exc = "" THEN "beat" ELSE "beat raised"
    /\ UNCHANGED <<current_state, is_dark_attr, snap, target, next_state,
                   polls, call>>

HandlerNext ==
    \/ CallShutdown \/ CallSleeping \/ CallGettingReady \/ CallScheduling
    \/ CallSlewing \/ CallTakingTestImage \/ CallAnalyzing \/ CallImaging
    \/ CallParking \/ CallParked \/ CallHeartbeat

HandlerSpec == HandlerInit /\ [][HandlerNext]_vars

-----------------------------------------------------------------------------
(* Vocabulary of the properties *)

NonParking == States \ {"parking", "parked"}

(* a direct handler call has ended / has returned a state *)
Done == pc \in {"returned", "raised"}
Returned == pc = "returned"

(* a handler call of the loop has ended *)
Dispatched == pc \in {"commit", "crashed"} /\ call.state \in States

Count(c) == Cardinality({i \in DOMAIN call.cmds : call.cmds[i].cmd = c})

CountArg(c, a) ==
    Cardinality({i \in DOMAIN call.cmds :
                    call.cmds[i].cmd = c /\ call.cmds[i].arg = a})

FailedCmds == {call.cmds[i].cmd : i \in {j \in DOMAIN call.cmds : ~call.cmds[j].ok}}

(* the sun was below the horizon at the instant of the call *)
WasDark == is_dark_value(call.alt, DarkHorizon)

(* the settled invariant of each state, on the snapshot of the call *)
SettledInvariant(st) ==
    CASE st = "shutdown" ->
            ~call.tts1 /\ ~snap.camera.connected /\ ~snap.mount.connected
      [] st = "sleeping" ->
            ~WasDark /\ snap.camera.connected /\ ~snap.camera.cooling
            /\ ~snap.camera.exposing /\ snap.mount.connected
            /\ ~snap.mount.tracking /\ ~snap.mount.slewing /\ snap.mount.parked
      [] st = "getting ready" ->
            WasDark /\ snap.camera.connected /\ snap.camera.cooling
            /\ ~snap.camera.cooled /\ ~snap.camera.exposing
            /\ snap.mount.connected /\ ~snap.mount.tracking
            /\ ~snap.mount.slewing /\ ~call.target0.chosen /\ snap.weather.safe
      [] st = "scheduling" ->
            WasDark /\ snap.camera.connected /\ snap.camera.cooling
            /\ snap.camera.cooled /\ ~snap.camera.exposing
            /\ snap.mount.connected /\ ~snap.mount.slewing /\ snap.weather.safe
      [] st = "slewing" -> snap.mount.connected /\ snap.mount.slewing
      [] st = "taking test image" ->
            snap.camera.exposing /\ snap.mount.tracking
            /\ call.target0.chosen /\ ~call.target0.test_image_taken
      [] st = "analyzing" ->
            ~snap.camera.exposing /\ call.target0.chosen
            /\ call.target0.test_image_taken
      [] st = "imaging" ->
            snap.camera.exposing /\ snap.mount.tracking /\ call.target0.chosen
      [] st = "parking" -> ~snap.mount.parked
      [] st = "parked" -> snap.mount.parked /\ WasDark
      [] OTHER -> FALSE

(* the corrective actions whose failure is to escalate to parking *)
Corrective ==
    {"camera.connect", "mount.connect", "camera.disconnect",
     "mount.disconnect", "camera.set_cooling", "camera.cancel_exposure",
     "mount.set_tracking_rate", "mount.cancel_slew", "mount.slew_to"}

(* once the call has set "parking", it sets nothing else *)
ParkingSticks ==
    \A i, j \in DOMAIN call.sets :
        (i < j /\ call.sets[i] = "parking") => call.sets[j] = "parking"

-----------------------------------------------------------------------------
(* C1 (as claimed): in every state but parking and parked, a handler call  *)
(* on a snapshot with unsafe weather returns parking and issues            *)
(* mount.park() exactly once (stated for the calls in which no command     *)
(* fails).                                                                 *)
C1_SingleFunnel ==
    (Returned /\ call.state \in NonParking /\ ~snap.weather.safe
     /\ FailedCmds = {})
        => (call.ret = "parking" /\ Count("mount.park") = 1)

(* C2 (as claimed): in a non-parking handler, when a single corrective     *)
(* action fails the call returns parking, logs critical exactly once, and  *)
(* no later clause of the call sets another next state.                    *)
C2_FailureEscalation ==
    (Returned /\ call.state \in NonParking
     /\ Cardinality(FailedCmds) = 1 /\ FailedCmds \subseteq Corrective)
        => (call.ret = "parking" /\ call.crit = 1 /\ ParkingSticks)

(* C3 (as claimed): whenever the settled invariant of the state holds on   *)
(* the snapshot, the handler returns the same state, issues no command and *)
(* leaves the target alone.                                                *)
C3_InvariantIdempotence ==
    (Dispatched /\ SettledInvariant(call.state))
        => (call.ret = call.state /\ call.cmds = <<>> /\ target = call.target0)

(* C4 (as claimed): in getting ready with the camera cooled and the        *)
(* weather safe, when only get_target() fails the handler returns getting  *)
(* ready and issues no mount.park(); and a failure of get_target() is the  *)
(* only failure after which a non-parking handler returns anything but     *)
(* parking.                                                                *)
C4_SchedulingRetry ==
    /\ (Done /\ call.state = "getting ready" /\ snap.camera.cooled
        /\ snap.weather.safe /\ call.fail = {"scheduler.get_target"})
           => (call.ret = "getting ready" /\ Count("mount.park") = 0)
    /\ (Returned /\ call.state \in NonParking /\ FailedCmds # {}
        /\ "scheduler.get_target" \notin FailedCmds)
           => call.ret = "parking"

(* C5: in slewing, on a snapshot with the mount no longer slewing and the  *)
(* weather safe, the handler issues exactly one take_image, a test         *)
(* exposure when the target's test image is not taken and a science        *)
(* exposure when it is, issues no mount.park(), and the state it returns   *)
(* is taking test image, respectively imaging.                             *)
C5_PostSlewDispatch ==
    (Done /\ call.state = "slewing" /\ ~snap.mount.slewing
     /\ snap.weather.safe /\ call.target0.chosen)
        => /\ Count("mount.park") = 0
           /\ Count("camera.take_image") = 1
           /\ IF ~call.target0.test_image_taken
              THEN /\ CountArg("camera.take_image", "True") = 1
                   /\ Returned => call.ret = "taking test image"
              ELSE /\ CountArg("camera.take_image", "False") = 1
                   /\ Returned => call.ret = "imaging"

(* C5 witness: a slewing call that found the slew complete, took the test  *)
(* exposure and returned taking test image.                                *)
C5_Witness ==
    /\ Returned /\ call.state = "slewing"
    /\ ~snap.mount.slewing /\ snap.weather.safe
    /\ call.target0.chosen /\ ~call.target0.test_image_taken
    /\ call.ret = "taking test image"
    /\ CountArg("camera.take_image", "True") = 1

(* C6 (as claimed): in sleeping with the camera disconnected, when         *)
(* camera.connect() fails the call invokes camera.connect() once and       *)
(* mount.park() once, and the state it returns is parking.                 *)
C6_ReconnectThenPark ==
    (Done /\ call.state = "sleeping" /\ ~snap.camera.connected
     /\ "camera.connect" \in FailedCmds)
        => /\ Count("camera.connect") = 1
           /\ Count("mount.park") = 1
           /\ Returned => call.ret = "parking"

(* C7 (as claimed): in analyzing, with fewer images than min_images and    *)
(* the astrometry solved the handler issues a slew and returns slewing,    *)
(* the target not completed; with min_images reached it marks the target   *)
(* completed and returns getting ready.                                    *)
C7_CompletionGate ==
    (Returned /\ call.state = "analyzing" /\ call.target0.chosen)
        => /\ (call.target0.images_taken < call.target0.min_images
               /\ call.target0.astrometry_solved)
                  => (call.ret = "slewing" /\ Count("mount.slew_to") = 1
                      /\ ~target.completed)
           /\ call.target0.images_taken >= call.target0.min_images
                  => (call.ret = "getting ready" /\ target.completed)

(* C8 (as claimed): once current_state holds the stop signal, no step of   *)
(* the loop or of a handler replaces it.                                   *)
C8_StopHonoured ==
    [][current_state = StopObserving => current_state' = StopObserving]_vars

(* C9: an iteration that dispatches has polled every status exactly once,  *)
(* runs the handler registered for the current state, hands its return     *)
(* value to next_state, and the commit makes that value the current state. *)
C9_CycleStructure ==
    [][/\ (pc = "dispatch" /\ pc' = "commit")
            => /\ \A p \in Polls : polls[p] = 1
               /\ call'.state = current_state
               /\ next_state' = call'.ret
       /\ (pc = "dispatch" /\ pc' = "crashed" /\ current_state \in States)
            => /\ \A p \in Polls : polls[p] = 1
               /\ call'.state = current_state
       /\ (pc = "commit" /\ pc' = "check")
            => current_state' = call.ret]_vars

(* C9 witness: an iteration has ended whose handler moved the controller   *)
(* from shutdown to sleeping.                                              *)
C9_Witness ==
    /\ pc = "check" /\ call.state = "shutdown" /\ call.ret = "sleeping"
    /\ current_state = "sleeping"
    /\ \A p \in Polls : polls[p] = 1

(* C10 (as claimed): no failure of a command leaves a non-parking handler, *)
(* so no command failure ends the control loop.                            *)
C10_NoFailureEscapes ==
    (pc = "crashed" /\ call.state \in NonParking)
        => call.exc # "CommandFailure"

(* C11 (as claimed): within one handler call darkness is evaluated at most  *)
(* once, so the settled check and the corrective and forward-transition    *)
(* checks of the call use the same day/night value.                        *)
C11_NoTornView ==
    (Done /\ call.state \in States) => call.dark_calls <= 1

(* C12 (as claimed): the parking handler, on a snapshot in which the mount  *)
(* reports the park position reached, returns parked; and it returns       *)
(* nothing but parking or parked.                                          *)
C12_ParkingCompletes ==
    (Returned /\ call.state = "parking")
        => /\ snap.mount.parked => call.ret = "parked"
           /\ call.ret \in {"parking", "parked"}

(* C13 (as claimed): the parked handler returns shutdown when the night    *)
(* has ended, getting ready when it is still night and the weather is      *)
(* safe, and parked otherwise.                                             *)
C13_LeavingParked ==
    (Returned /\ call.state = "parked")
        => call.ret = IF ~WasDark THEN "shutdown"
                      ELSE IF snap.weather.safe THEN "getting ready"
                      ELSE "parked"

(* C14 (as claimed): in taking test image and in imaging, on a snapshot in *)
(* which the camera is no longer exposing the handler returns analyzing.   *)
C14_ExposureCompletion ==
    (Returned /\ call.state \in {"taking test image", "imaging"}
     /\ ~snap.camera.exposing)
        => call.ret = "analyzing"

(* C15 (as claimed): in scheduling, on a settled snapshot with a target    *)
(* chosen, the handler issues mount.slew_to(target) once and returns       *)
(* slewing.                                                                *)
C15_SchedulingForward ==
    (Returned /\ call.state = "scheduling" /\ SettledInvariant("scheduling")
     /\ call.target0.chosen)
        => (Count("mount.slew_to") = 1 /\ call.ret = "slewing")

(* C16: the getting ready handler returns scheduling only on a call whose  *)
(* snapshot has the camera cooled and the weather safe and in which        *)
(* get_target() was requested and did not fail; and a call on such a       *)
(* snapshot that requested the target and in which no command failed       *)
(* returns scheduling.                                                     *)
C16_GettingReadyForward ==
    (Done /\ call.state = "getting ready")
        => /\ call.ret = "scheduling"
                => /\ snap.camera.cooled /\ snap.weather.safe
                   /\ Count("scheduler.get_target") = 1
                   /\ "scheduler.get_target" \notin FailedCmds
           /\ (snap.camera.cooled /\ snap.weather.safe
               /\ Count("scheduler.get_target") = 1 /\ FailedCmds = {})
                => (Returned /\ call.ret = "scheduling")

(* C16 witness: a getting ready call on a cooled camera under safe weather *)
(* that requested a target and returned scheduling.                        *)
C16_Witness ==
    /\ Returned /\ call.state = "getting ready"
    /\ snap.camera.cooled /\ snap.weather.safe
    /\ Count("scheduler.get_target") = 1 /\ FailedCmds = {}
    /\ call.ret = "scheduling"

C18_ShutdownForward ==
    (Done /\ call.state = "shutdown")
        => /\ (Returned /\ call.tts1
               /\ call.fail \cap {"camera.connect", "mount.connect"} = {})
                => /\ Count("camera.connect") = 1
                   /\ Count("mount.connect") = 1
                   /\ call.ret = "sleeping"
           /\ ~call.tts2
                => /\ Count("camera.connect") = 0
                   /\ Count("mount.connect") = 0
                   /\ call.ret # "sleeping"

(* C18 witness: a shutdown call past the start time connected the camera   *)
(* and the mount and returned sleeping.                                    *)
C18_Witness ==
    /\ Returned /\ call.state = "shutdown" /\ call.tts1
    /\ Count("camera.connect") = 1 /\ Count("mount.connect") = 1
    /\ FailedCmds = {} /\ call.ret = "sleeping"

(* C19: a parking or parked call on a snapshot with an exposure in         *)
(* progress issues no command, and returns the state it returns on the     *)
(* same snapshot without the exposure: its own state.                      *)
C19_ExposureTolerated ==
    (Done /\ call.state \in {"parking", "parked"} /\ snap.camera.exposing)
        => /\ Returned
           /\ call.cmds = <<>>
           /\ call.ret = call.state
           /\ call.ret =
                states(call.state, call.target0, is_dark_attr,
                       [snap EXCEPT !.camera.exposing = FALSE],
                       [fail |-> call.fail, alt |-> call.alt,
                        tts1 |-> call.tts1, tts2 |-> call.tts2,
                        deliver |-> FALSE]).cs

(* C19 witness: a parking call on a snapshot with the camera exposing has  *)
(* returned parking without issuing a command.                             *)
C19_Witness ==
    /\ Returned /\ call.state = "parking" /\ snap.camera.exposing
    /\ call.cmds = <<>> /\ call.ret = "parking"

(* C20 (as claimed): every iteration of the control loop that runs a       *)
(* handler makes exactly one heartbeat write.                              *)
C20_Heartbeat ==
    Dispatched => heartbeats = 1

(* the idle wait of each state that has one *)
Backoff(st) ==
    IF st \in {"shutdown", "sleeping"} THEN LongWait ELSE ShortWait

(* C21 (as claimed): in shutdown, sleeping, getting ready and scheduling a *)
(* call waits exactly when the settled invariant holds, 60 s in shutdown   *)
(* and sleeping and 10 s in getting ready and scheduling; a call that      *)
(* returns another state than its own does not wait.                       *)
C21_Backoff ==
    (Returned
     /\ call.state \in {"shutdown", "sleeping", "getting ready", "scheduling"})
        => /\ call.wait = IF SettledInvariant(call.state)
                          THEN Backoff(call.state) ELSE 0
           /\ call.ret # call.state => call.wait = 0

(* C22: in the control loop current_state is always one of the ten state   *)
(* names or the stop value; every value a handler returns, and so every    *)
(* value committed, is a key of self.states; the lookup of the dispatch    *)
(* fails for no value but the stop value.                                  *)
C22_ClosedStateSet ==
    /\ current_state \in States \cup {StopObserving}
    /\ pc \in {"commit", "returned"} => call.ret \in States
    /\ pc = "commit" => next_state \in States
    /\ (pc = "crashed" /\ call.state = "none") => current_state = StopObserving

(* C22 witness: the dispatch of a later iteration has looked up the state  *)
(* an earlier handler returned, and that handler has returned in turn.     *)
C22_Witness ==
    /\ pc = "commit" /\ call.state = "sleeping"
    /\ next_state = "sleeping" /\ current_state = "sleeping"

(* C23 (as claimed): after a slewing call that moves to imaging the target *)
(* has analysis attempted, analysis in progress and astrometry solved all  *)
(* false; after a scheduling call that moves to slewing the target has     *)
(* test image taken, completed, analysis attempted and astrometry solved   *)
(* all false.                                                              *)
C23_ResetOnEntry ==
    /\ (Returned /\ call.state = "slewing" /\ call.ret = "imaging")
            => /\ ~target.analysis_attempted
               /\ ~target.analysis_in_progress
               /\ ~target.astrometry_solved
    /\ (Returned /\ call.state = "scheduling" /\ call.ret = "slewing")
            => /\ ~target.test_image_taken /\ ~target.completed
               /\ ~target.analysis_attempted /\ ~target.astrometry_solved

(* C24 (as claimed): every call of is_dark a handler makes, the first on   *)
(* the controller and every later one, is carried out and yields           *)
(* altitude < horizon for the altitude of that instant.                    *)
C24_DayNightOracle ==
    (Dispatched /\ call.dark_calls >= 1)
        => /\ call.exc # "TypeError"
           /\ call.dark = (call.alt < DarkHorizon)

DocumentedSuccessors(st) ==
    CASE st = "shutdown" -> {"sleeping"}
      [] st = "sleeping" -> {"parking", "getting ready"}
      [] st = "getting ready" -> {"parking", "scheduling"}
      [] st = "scheduling" -> {"parking", "slewing"}
      [] st = "slewing" -> {"parking", "taking test image", "imaging"}
      [] st = "parking" -> {"parked"}
      [] st = "parked" -> {"shutdown", "getting ready"}
      [] OTHER -> States

(* C26 (as claimed): a handler returns its own state or a state its        *)
(* docstring names as an exit.                                             *)
C26_DocumentedGraph ==
    Returned
        => call.ret \in {call.state} \cup DocumentedSuccessors(call.state)

(* C27 (as claimed): a getting ready or scheduling call made under unsafe  *)
(* weather or after the end of the night, with mount.park() succeeding,    *)
(* issues mount.park() and returns parking.                                *)
C27_RetryLoopSafe ==
    (Returned /\ call.state \in {"getting ready", "scheduling"}
     /\ (~snap.weather.safe \/ ~WasDark) /\ "mount.park" \notin call.fail)
        => (Count("mount.park") >= 1 /\ call.ret = "parking")

(* the positions of a command in the call *)
Positions(c) == {i \in DOMAIN call.cmds : call.cmds[i].cmd = c}

(* command c was issued earlier in the call than every mount.park() *)
IssuedBeforePark(c) ==
    \E i \in Positions(c) : \A j \in Positions("mount.park") : i < j

(* C28 (as claimed): in sleeping, getting ready and scheduling, a call     *)
(* that issues mount.park() on a snapshot with the mount slewing has       *)
(* issued cancel_slew() before the first park, and on a snapshot with the  *)
(* mount tracking has issued set_tracking_rate(0,0) before the first park. *)
C28_CancelBeforePark ==
    (Done /\ call.state \in {"sleeping", "getting ready", "scheduling"}
     /\ Count("mount.park") >= 1)
        => /\ snap.mount.slewing => IssuedBeforePark("mount.cancel_slew")
           /\ snap.mount.tracking => IssuedBeforePark("mount.set_tracking_rate")

(* C29 (as claimed): a call that issues mount.park() and in which no park  *)
(* fails returns parking.                                                  *)
C29_ParkImpliesParking ==
    (Returned /\ Count("mount.park") >= 1 /\ "mount.park" \notin FailedCmds)
        => call.ret = "parking"

(* the mount is connected when command j of the call is issued: the last   *)
(* successful connect or disconnect before it was a connect, or there was  *)
(* none and the snapshot has the mount connected                           *)
MountConnectedAt(j) ==
    LET evs == {i \in 1..(j - 1) :
                    /\ call.cmds[i].ok
                    /\ call.cmds[i].cmd \in {"mount.connect", "mount.disconnect"}}
    IN  IF evs = {} THEN snap.mount.connected
        ELSE call.cmds[CHOOSE i \in evs : \A k \in evs : k <= i].cmd
                = "mount.connect"

(* C30 (as claimed): every mount.park() of a handler call is issued while  *)
(* the mount is connected.                                                 *)
C30_ParkOnConnectedMount ==
    Done => \A j \in Positions("mount.park") : MountConnectedAt(j)

(* the states of the observing pipeline past getting ready *)
ForwardStates == {"scheduling", "slewing", "taking test image", "imaging"}

(* C31: a handler call on a snapshot with unsafe weather issues no         *)
(* get_target(), no slew_to() and no take_image(), and the state it        *)
(* returns is no state of the observing pipeline other than the one it was *)
(* called in.                                                              *)
C31_NoProgressUnsafe ==
    (Done /\ call.state \in States /\ ~snap.weather.safe)
        => /\ Count("scheduler.get_target") = 0
           /\ Count("mount.slew_to") = 0
           /\ Count("camera.take_image") = 0
           /\ Returned => call.ret \notin (ForwardStates \ {call.state})

(* C31 witness: a getting ready call with the camera cooled, under unsafe  *)
(* weather, has parked and returned parking without requesting a target.   *)
C31_Witness ==
    /\ Returned /\ call.state = "getting ready"
    /\ snap.camera.cooled /\ ~snap.weather.safe
    /\ Count("scheduler.get_target") = 0 /\ Count("mount.park") = 1
    /\ call.ret = "parking"

(* C32 (as claimed): after a getting ready call that requested a target    *)
(* and returned scheduling, a target the scheduler delivered during the    *)
(* call is still the scheduler's target.                                   *)
C32_TargetSurvives ==
    (Returned /\ call.state = "getting ready" /\ call.ret = "scheduling"
     /\ call.delivered)
        => target.chosen

=============================================================================
